---- MODULE Spec2Model ----
(***************************************************************************)
(* Greedy Non-Maximum Suppression of nextcv::postprocessing::nms           *)
(* (nextcv/_cpp/src/postprocessing/nms.cpp).                               *)
(*                                                                         *)
(* Vectors are sequences; the code's 0-based index k is element k + 1.     *)
(* Coordinates, areas and scores are small integers, exactly representable *)
(* as float, so every float sum, difference and product of the code is     *)
(* exact.  The one inexact operation, inter_area / union_area, is kept as  *)
(* the fraction <<inter_area, union_area>> and compared with the threshold *)
(* by cross-multiplication, with the IEEE-754 outcomes of a zero divisor   *)
(* (0/0 = NaN, x/0 = +Inf) modelled explicitly.  Thresholds are fractions  *)
(* <<num, den>>, den > 0, that are exact floats; within the bounds below   *)
(* any two distinct quotients differ by far more than one float ulp, so    *)
(* rounding never changes a comparison.                                    *)
(*                                                                         *)
(* 8-bit pixel inversion of nextcv::image::invert                          *)
(* (nextcv/_cpp/src/image/invert.cpp) is the second program, with its own  *)
(* variables and its own specification SpecInvert.                         *)
(***************************************************************************)
EXTENDS Integers, Sequences, FiniteSets

\* nms: the parameters, the locals and the position in the function
VARIABLES bboxes, scores, threshold, areas, indices, is_suppressed, keep, i, pc

\* invert: the caller's vector, invert(pixels), invert(invert(pixels)) and
\* the position of the caller
VARIABLES pixels, out, back, ipc

nmsvars == <<bboxes, scores, threshold, areas, indices, is_suppressed, keep, i, pc>>

ivars == <<pixels, out, back, ipc>>

vars == <<nmsvars, ivars>>

(***************************** bounds **************************************)
\* grid of box corners: x in 0..MaxX, y in 0..MaxY
MaxX == 2
MaxY == 2
\* rows of up to RowLen boxes of height 1 on x in 0..RowMaxX
RowLen == 4
RowMaxX == 4
\* longest pixel vector drawn from the sample values
MaxPixels == 3

(***************************** inputs **************************************)
\* (x1, y1, x2, y2) rows of the bboxes matrix with x2 >= x1 and y2 >= y1
GridBoxes ==
    { <<x1, y1, x2, y2>> : x1 \in 0..MaxX, y1 \in 0..MaxY,
                           x2 \in 0..MaxX, y2 \in 0..MaxY }

ValidBox(b) == b[3] >= b[1] /\ b[4] >= b[2]

Boxes == { b \in GridBoxes : ValidBox(b) }

\* boxes of height 1 and positive width standing in one row
RowBoxes ==
    { <<p[1], 0, p[2], 1>> :
        p \in { q \in (0..RowMaxX) \X (0..RowMaxX) : q[1] < q[2] } }

\* two values give every ordering (above, equal, below) of a pair of scores
Scores == {1, 2}

\* -1/2, 0, 1/4, 1/2 (the default of the binding), 1
Thresholds == { <<-1, 2>>, <<0, 1>>, <<1, 4>>, <<1, 2>>, <<1, 1>> }

(***************************** helpers *************************************)
\* element k of a vector, 0-based as in the code
At(v, k) == v[k + 1]

Max(a, b) == IF a >= b THEN a ELSE b

Min(a, b) == IF a <= b THEN a ELSE b

\* t1 <= t2 for thresholds <<num, den>> with den > 0
ThresholdLeq(t1, t2) == t1[1] * t2[2] <= t2[1] * t1[2]

(***************************** nms.cpp *************************************)
\* mutant: the early return left out
RowsEmptyNever(bb) == FALSE

\* mutant: the test of the early return the wrong way round
RowsEmptyInverted(bb) == Len(bb) # 0

\* bboxes.rows() == 0
RowsEmpty(bb) == Len(bb) = 0

\* (x2 - x1) * (y2 - y1) of one row of bboxes
BoxArea(b) == (b[3] - b[1]) * (b[4] - b[2])

\* Eigen::VectorXf areas: one entry per row of bboxes
Areas(bb) == [k \in 1..Len(bb) |-> BoxArea(bb[k])]

\* mutant: the comparator the wrong way round, an ascending sort
CompAscending(sc, a, b) == At(sc, a) < At(sc, b)

\* the comparator handed to std::sort
Comp(sc, a, b) == At(sc, a) > At(sc, b)

\* std::sort(indices.begin(), indices.end(), comp) is not stable: every
\* arrangement of the set todo in which no element stands behind one that it
\* compares before is an outcome the library may produce.  Built front to
\* back: the head is any element that no other one compares before.
RECURSIVE SortOutcomesOf(_, _)
SortOutcomesOf(sc, todo) ==
    IF todo = {} THEN { <<>> }
    ELSE UNION { { <<k>> \o rest : rest \in SortOutcomesOf(sc, todo \ {k}) } :
                   k \in { c \in todo : \A l \in todo : ~Comp(sc, l, c) } }

\* indices after iota and std::sort
SortOutcomes(sc) == SortOutcomesOf(sc, 0..(Len(sc) - 1))

\* mutant: width and height of the overlap not clamped at 0
InterAreaUnclamped(a, b) ==
    (Min(a[3], b[3]) - Max(a[1], b[1])) * (Min(a[4], b[4]) - Max(a[2], b[2]))

\* inter_area: width and height of the overlap clamped at 0
InterArea(a, b) ==
    LET ix1 == Max(a[1], b[1])
        iy1 == Max(a[2], b[2])
        ix2 == Min(a[3], b[3])
        iy2 == Min(a[4], b[4])
    IN  Max(0, ix2 - ix1) * Max(0, iy2 - iy1)

\* mutant: the area of the first box added twice
UnionAreaSameBox(area_a, area_b, inter) == area_a + area_a - inter

\* union_area
UnionArea(area_a, area_b, inter) == area_a + area_b - inter

\* mutant: the test the wrong way round, iou < threshold
IouExceedsFlipped(inter, union, t) ==
    IF union > 0 THEN inter * t[2] < t[1] * union
    ELSE IF union < 0 THEN inter * t[2] > t[1] * union
    ELSE FALSE

\* mutant: a cutoff that is not strict, iou >= threshold
IouExceedsOrEquals(inter, union, t) ==
    IF union > 0 THEN inter * t[2] >= t[1] * union
    ELSE IF union < 0 THEN inter * t[2] <= t[1] * union
    ELSE inter > 0

\* iou = inter / union; iou > threshold, in float arithmetic:
\* a finite quotient is compared as a fraction, x/0 with x > 0 is +Inf and
\* exceeds every threshold, 0/0 is NaN and exceeds none
IouExceeds(inter, union, t) ==
    IF union > 0 THEN inter * t[2] > t[1] * union
    ELSE IF union < 0 THEN inter * t[2] < t[1] * union
    ELSE inter > 0

\* the body of the inner loop for one pair of rows that exist
Suppresses(bb, ar, idx, other, t) ==
    LET inter == InterArea(At(bb, idx), At(bb, other))
    IN  IouExceeds(inter, UnionArea(At(ar, idx), At(ar, other), inter), t)

\* row k exists in bboxes and areas
InRange(bb, k) == k < Len(bb)

\* for (j = i + 1; j < scores.size(); ++j): the flags after the loop.
\* A comparison that reads a row outside bboxes is decided by whatever lies
\* in memory there: junk is the set of indices for which it says "suppress".
RECURSIVE InnerLoop(_, _, _, _, _, _, _, _)
InnerLoop(bb, ar, ord, t, idx, j, supp, junk) ==
    IF j >= Len(ord) THEN supp
    ELSE LET other == At(ord, j)
             hit == IF InRange(bb, idx) /\ InRange(bb, other)
                    THEN Suppresses(bb, ar, idx, other, t)
                    ELSE other \in junk
         IN  IF At(supp, other)
             THEN InnerLoop(bb, ar, ord, t, idx, j + 1, supp, junk)
             ELSE InnerLoop(bb, ar, ord, t, idx, j + 1,
                            IF hit THEN [supp EXCEPT ![other + 1] = TRUE]
                            ELSE supp, junk)

\* for (i = k; i < scores.size(); ++i): keep after the loop
RECURSIVE OuterLoop(_, _, _, _, _, _, _)
OuterLoop(bb, ar, ord, t, k, supp, kp) ==
    IF k >= Len(ord) THEN kp
    ELSE LET idx == At(ord, k)
         IN  IF At(supp, idx)
             THEN OuterLoop(bb, ar, ord, t, k + 1, supp, kp)
             ELSE OuterLoop(bb, ar, ord, t, k + 1,
                            InnerLoop(bb, ar, ord, t, idx, k + 1, supp, {}),
                            Append(kp, idx))

\* nms(bboxes, scores, threshold) on inputs of equal length, when std::sort
\* leaves the indices in the order ord
Nms(bb, sc, t, ord) ==
    IF RowsEmpty(bb) THEN <<>>
    ELSE OuterLoop(bb, Areas(bb), ord, t, 0, [k \in 1..Len(sc) |-> FALSE], <<>>)

(***************************** state machine *******************************)
\* at most two boxes and at most two scores, the two lengths independent of
\* each other, the boxes drawn from the grid
InitPair ==
    \E n \in 0..2, m \in 0..2 :
        /\ bboxes \in [1..n -> Boxes]
        /\ scores \in [1..m -> Scores]
        /\ threshold \in Thresholds

\* box a is listed before box b in a row: by left edge, then by right edge
RowOrder(a, b) == a[1] < b[1] \/ (a[1] = b[1] /\ a[3] <= b[3])

\* a row of up to RowLen boxes listed left to right, one score each, the
\* scores falling along the row
InitRow ==
    \E n \in 1..RowLen :
        /\ bboxes \in { r \in [1..n -> RowBoxes] :
                          \A k \in 1..(n - 1) : RowOrder(r[k], r[k + 1]) }
        /\ scores = [k \in 1..n |-> n + 1 - k]
        /\ threshold \in Thresholds

\* three boxes of a row listed left to right, with any scores: ties, and
\* every order in which the sort can rank three boxes
InitTriple ==
    /\ bboxes \in { r \in [1..3 -> RowBoxes] :
                      \A k \in 1..2 : RowOrder(r[k], r[k + 1]) }
    /\ scores \in [1..3 -> Scores]
    /\ threshold \in Thresholds

\* the four boxes of the NMS demo
ExampleBoxes ==
    << <<10, 10, 60, 60>>, <<15, 15, 60, 60>>,
       <<100, 100, 130, 130>>, <<20, 20, 60, 60>> >>

\* the scores 0.9, 0.8, 0.7, 0.6 of the demo, in tenths: four distinct
\* floats in falling order
ExampleScores == <<9, 8, 7, 6>>

\* the demo's input, at its threshold 0.5 and at the other thresholds
InitExample ==
    /\ bboxes = ExampleBoxes
    /\ scores = ExampleScores
    /\ threshold \in Thresholds

Init ==
    /\ InitPair \/ InitTriple \/ InitRow \/ InitExample
    /\ areas = <<>>
    /\ indices = <<>>
    /\ is_suppressed = <<>>
    /\ keep = <<>>
    /\ i = 0
    /\ pc = "start"
    /\ pixels = <<>>
    /\ out = <<>>
    /\ back = <<>>
    /\ ipc = "idle"

\* if (bboxes.rows() == 0) return {};
ReturnEmpty ==
    /\ pc = "start"
    /\ RowsEmpty(bboxes)
    /\ keep' = <<>>
    /\ pc' = "done"
    /\ UNCHANGED <<bboxes, scores, threshold, areas, indices, is_suppressed, i>>
    /\ UNCHANGED ivars

\* areas, the sorted indices, the empty keep and the cleared flags
Setup ==
    /\ pc = "start"
    /\ ~RowsEmpty(bboxes)
    /\ areas' = Areas(bboxes)
    /\ indices' \in SortOutcomes(scores)
    /\ keep' = <<>>
    /\ is_suppressed' = [k \in 1..Len(scores) |-> FALSE]
    /\ i' = 0
    /\ pc' = "loop"
    /\ UNCHANGED <<bboxes, scores, threshold>>
    /\ UNCHANGED ivars

\* the unsuppressed indices after position i whose comparison with
\* indices[i] reads a row that bboxes does not have
OutOfRangeOthers ==
    { At(indices, j) : j \in { k \in (i + 1)..(Len(indices) - 1) :
        /\ ~At(is_suppressed, At(indices, k))
        /\ ~(InRange(bboxes, At(indices, i)) /\ InRange(bboxes, At(indices, k))) } }

\* the iteration about to run compares a pair with a row outside bboxes
ReadsOutside ==
    /\ pc = "loop"
    /\ i < Len(scores)
    /\ ~At(is_suppressed, At(indices, i))
    /\ OutOfRangeOthers # {}

\* an outer iteration whose index is already suppressed: continue
SkipSuppressed ==
    /\ pc = "loop"
    /\ i < Len(scores)
    /\ At(is_suppressed, At(indices, i))
    /\ i' = i + 1
    /\ UNCHANGED <<bboxes, scores, threshold, areas, indices, is_suppressed, keep, pc>>
    /\ UNCHANGED ivars

\* an outer iteration that keeps its index and runs the inner loop
KeepAndSuppress ==
    /\ pc = "loop"
    /\ i < Len(scores)
    /\ ~At(is_suppressed, At(indices, i))
    /\ keep' = Append(keep, At(indices, i))
    /\ \E junk \in SUBSET OutOfRangeOthers :
          is_suppressed' = InnerLoop(bboxes, areas, indices, threshold,
                                     At(indices, i), i + 1, is_suppressed, junk)
    /\ i' = i + 1
    /\ UNCHANGED <<bboxes, scores, threshold, areas, indices, pc>>
    /\ UNCHANGED ivars

\* a build with Eigen's range assertions on stops at the first read of a row
\* that bboxes does not have
AssertFail ==
    /\ ReadsOutside
    /\ pc' = "aborted"
    /\ UNCHANGED <<bboxes, scores, threshold, areas, indices, is_suppressed, keep, i>>
    /\ UNCHANGED ivars

\* return keep;
Return ==
    /\ pc = "loop"
    /\ i >= Len(scores)
    /\ pc' = "done"
    /\ UNCHANGED <<bboxes, scores, threshold, areas, indices, is_suppressed, keep, i>>
    /\ UNCHANGED ivars

Next ==
    \/ ReturnEmpty
    \/ Setup
    \/ SkipSuppressed
    \/ KeepAndSuppress
    \/ AssertFail
    \/ Return

Spec == Init /\ [][Next]_vars

(***************************** invert.cpp **********************************)
\* std::numeric_limits<core::Pixel>::max()
PixelMax == 255

\* the number of values of core::Pixel, std::uint8_t
PixelValues == 256

\* mutant: inversion about 256, which wraps 0 round to 0
InvertPixelWrapped(p) == (PixelValues - p) % PixelValues

\* the lambda of std::transform: max - p is computed in int and converted
\* to core::Pixel, that is reduced modulo 2^8
InvertPixel(p) == (PixelMax - p) % PixelValues

\* std::transform over pixels[k..] with std::back_inserter(out)
RECURSIVE InvertFrom(_, _, _)
InvertFrom(px, k, acc) ==
    IF k > Len(px) THEN acc
    ELSE InvertFrom(px, k + 1, Append(acc, InvertPixel(px[k])))

\* invert(pixels)
Invert(px) == InvertFrom(px, 1, <<>>)

\* every value of core::Pixel
Pixels == 0..(PixelValues - 1)

\* the pixel values of the demo
PixelSamples == {0, 64, 100, 128, 192, 255}

\* the vector of the demo
ExamplePixels == <<0, 64, 128, 192, 255>>

\* a single pixel of any value, a vector of up to MaxPixels sample values,
\* or the vector of the demo
InitInvert ==
    /\ \/ pixels \in [1..1 -> Pixels]
       \/ \E n \in 0..MaxPixels : pixels \in [1..n -> PixelSamples]
       \/ pixels = ExamplePixels
    /\ out = <<>>
    /\ back = <<>>
    /\ ipc = "start"
    /\ bboxes = <<>>
    /\ scores = <<>>
    /\ threshold = <<1, 2>>
    /\ areas = <<>>
    /\ indices = <<>>
    /\ is_suppressed = <<>>
    /\ keep = <<>>
    /\ i = 0
    /\ pc = "idle"

\* auto inverted = invert(pixels);
InvertCall ==
    /\ ipc = "start"
    /\ out' = Invert(pixels)
    /\ ipc' = "inverted"
    /\ UNCHANGED <<pixels, back>>
    /\ UNCHANGED nmsvars

\* invert applied to its own result
InvertAgain ==
    /\ ipc = "inverted"
    /\ back' = Invert(out)
    /\ ipc' = "restored"
    /\ UNCHANGED <<pixels, out>>
    /\ UNCHANGED nmsvars

NextInvert ==
    \/ InvertCall
    \/ InvertAgain

SpecInvert == InitInvert /\ [][NextInvert]_vars

(***************************** claims **************************************)
Done == pc = "done"

EqualLen == Len(bboxes) = Len(scores)

\* the indices in keep
KeepSet == { keep[k] : k \in 1..Len(keep) }

\* a threshold above the one of the call
Above(t2) == ~ThresholdLeq(t2, threshold)

\* intersection / (area_a + area_b - intersection) <= t for valid boxes,
\* with the IoU of a pair whose union area is zero defined as 0
ClaimIouLeq(a, b, t) ==
    LET inter == InterArea(a, b)
        union == BoxArea(a) + BoxArea(b) - inter
    IN  IF union = 0 THEN 0 <= t[1] ELSE inter * t[2] <= t[1] * union

\* the union area of the two boxes of a two-box input
PairUnion ==
    BoxArea(bboxes[1]) + BoxArea(bboxes[2]) - InterArea(bboxes[1], bboxes[2])

\* the boxes or scores selected by keep, in the order of keep
Filtered(v) == [k \in 1..Len(keep) |-> At(v, keep[k])]

\* C1: when boxes and scores differ in length, nms returns an empty sequence
\* for every threshold, raises no error and reads outside neither input.
C1_MismatchedLengthsGiveEmpty ==
    Len(bboxes) # Len(scores) =>
        /\ pc # "aborted"
        /\ ~ReadsOutside
        /\ (Done => keep = <<>>)

\* C2: for equal-length inputs of valid boxes and every threshold, every pair
\* of indices in the result has IoU <= threshold.
C2_KeptPairsWithinThreshold ==
    (Done /\ EqualLen) =>
        \A a, b \in KeepSet :
            a # b => ClaimIouLeq(At(bboxes, a), At(bboxes, b), threshold)

\* C3 as stated: for equal-length inputs, a threshold t2 >= t never gives
\* fewer indices than t.
C3_Monotone ==
    (Done /\ EqualLen) =>
        \A t2 \in Thresholds :
            ThresholdLeq(threshold, t2) =>
                Len(Nms(bboxes, scores, t2, indices)) >= Len(keep)

\* C3 amended: for equal-length inputs of at most three boxes, a threshold
\* t2 >= t never gives fewer indices than t.
C3_MonotoneUpToThree ==
    (Done /\ EqualLen /\ Len(bboxes) <= 3) =>
        \A t2 \in Thresholds :
            ThresholdLeq(threshold, t2) =>
                Len(Nms(bboxes, scores, t2, indices)) >= Len(keep)

\* three boxes of which a higher threshold keeps more
C3_Witness ==
    /\ Done /\ EqualLen /\ Len(bboxes) = 3
    /\ Len(keep) = 2
    /\ \E t2 \in Thresholds :
          Above(t2) /\ Len(Nms(bboxes, scores, t2, indices)) = 3

\* C4: nms on the boxes and scores selected by its own result, with any
\* threshold t2 >= t and whatever order the sort leaves ties in, keeps every
\* one of them.
C4_KeptSetIsStable ==
    (Done /\ Len(scores) <= Len(bboxes)) =>
        \A t2 \in Thresholds :
            ThresholdLeq(threshold, t2) =>
                \A ord \in SortOutcomes(Filtered(scores)) :
                    LET again == Nms(Filtered(bboxes), Filtered(scores), t2, ord)
                    IN  /\ Len(again) = Len(keep)
                        /\ { again[k] : k \in 1..Len(again) } = 0..(Len(keep) - 1)

\* a call that suppressed a box and kept two of equal score, with a threshold
\* above its own to rerun with
C4_Witness ==
    /\ Done /\ EqualLen
    /\ Len(keep) = 2 /\ Len(keep) < Len(bboxes)
    /\ At(scores, keep[1]) = At(scores, keep[2])
    /\ \E t2 \in Thresholds : Above(t2)

\* C5: every element of the result lies in 0..n-1, n the number of boxes, and
\* no index appears twice.
C5_IndicesOfBoxesNoDuplicates ==
    Done =>
        /\ \A k \in 1..Len(keep) : keep[k] \in 0..(Len(bboxes) - 1)
        /\ \A k, l \in 1..Len(keep) : k # l => keep[k] # keep[l]

\* C6: the result is in descending score order: consecutive elements a then b
\* have scores[a] >= scores[b].
C6_DescendingScores ==
    \A k \in 1..(Len(keep) - 1) :
        At(scores, keep[k]) >= At(scores, keep[k + 1])

\* a result that is not in input order
C6_Witness ==
    /\ Done
    /\ Len(keep) = 2
    /\ keep[1] > keep[2]
    /\ At(scores, keep[1]) > At(scores, keep[2])

\* C7: of two boxes with equal scores the one with the lower original index
\* is ranked first.
C7_TiesInInputOrder ==
    \A a, b \in 1..Len(indices) :
        (a < b /\ At(scores, indices[a]) = At(scores, indices[b]))
            => indices[a] < indices[b]

\* C8: a pair whose union area is zero has IoU 0: the lower-ranked box of a
\* two-box input is suppressed exactly when 0 > threshold.
C8_ZeroUnionIouIsZero ==
    (Done /\ Len(bboxes) = 2 /\ Len(scores) = 2 /\ PairUnion = 0) =>
        (Len(keep) = 1 <=> threshold[1] < 0)

\* C9: when boxes is empty or scores is empty, nms returns an empty sequence.
C9_EmptyInputGivesEmpty ==
    (Len(bboxes) = 0 \/ Len(scores) = 0) =>
        /\ pc # "aborted"
        /\ (Done => keep = <<>>)

\* boxes without scores: the call has returned
C9_Witness ==
    /\ Done
    /\ Len(bboxes) > 0
    /\ Len(scores) = 0
    /\ keep = <<>>

\* C10: two boxes whose intersection area is zero are both kept for any
\* scores and any threshold >= 0.
C10_DisjointPairKept ==
    ( /\ Done /\ Len(bboxes) = 2 /\ Len(scores) = 2
      /\ InterArea(bboxes[1], bboxes[2]) = 0
      /\ threshold[1] >= 0 ) =>
        KeepSet = {0, 1}

\* a box of zero area and a box of positive area apart from it, threshold 0
C10_Witness ==
    /\ Done /\ Len(bboxes) = 2 /\ Len(scores) = 2
    /\ InterArea(bboxes[1], bboxes[2]) = 0
    /\ BoxArea(bboxes[1]) = 0 /\ BoxArea(bboxes[2]) > 0
    /\ threshold = <<0, 1>>
    /\ Len(keep) = 2

\* C11: the demo's boxes (10,10,60,60), (15,15,60,60), (100,100,130,130),
\* (20,20,60,60) with scores 0.9, 0.8, 0.7, 0.6 and threshold 0.5 give exactly
\* [0, 2]: boxes 1 and 3 have IoU 2025/2500 and 1600/2500 with box 0 and are
\* suppressed, box 2 meets none of the others.
C11_ExampleKeepsZeroAndTwo ==
    ( /\ Done
      /\ bboxes = ExampleBoxes /\ scores = ExampleScores
      /\ threshold = <<1, 2>> ) =>
        /\ keep = <<0, 2>>
        /\ is_suppressed = <<FALSE, TRUE, FALSE, TRUE>>
        /\ InterArea(bboxes[1], bboxes[2]) = 2025
        /\ UnionArea(areas[1], areas[2], 2025) = 2500
        /\ InterArea(bboxes[1], bboxes[4]) = 1600
        /\ UnionArea(areas[1], areas[4], 1600) = 2500
        /\ \A k \in {1, 2, 4} : InterArea(bboxes[3], bboxes[k]) = 0

\* the demo's call has returned
C11_Witness ==
    /\ Done
    /\ bboxes = ExampleBoxes /\ scores = ExampleScores
    /\ threshold = <<1, 2>>
    /\ Len(keep) = 2

\* C12: for a non-empty input of equal lengths the result is not empty and its
\* first element has a maximal score, whatever the threshold; a single box
\* gives [0].
C12_BestBoxAlwaysKept ==
    (Done /\ EqualLen /\ Len(bboxes) >= 1) =>
        /\ keep # <<>>
        /\ \A k \in 0..(Len(scores) - 1) :
              At(scores, keep[1]) >= At(scores, k)
        /\ (Len(bboxes) = 1 => keep = <<0>>)

\* under the lowest threshold, where every other box is suppressed, the box
\* that heads the result is not the first of the input
C12_Witness ==
    /\ Done /\ EqualLen /\ Len(bboxes) >= 2
    /\ threshold = <<-1, 2>>
    /\ Len(keep) = 1
    /\ keep[1] # 0
    /\ At(scores, keep[1]) > At(scores, 0)

\* C13: invert(pixels) has the length of pixels and its element k is
\* 255 - pixels[k], within 0..255; pixels is as it was; invert(invert(pixels))
\* is pixels; [0, 64, 128, 192, 255] gives [255, 191, 127, 63, 0].
C13_InvertIsComplement ==
    /\ ipc \in {"inverted", "restored"} =>
          /\ Len(out) = Len(pixels)
          /\ \A k \in 1..Len(pixels) :
                out[k] = 255 - pixels[k] /\ out[k] \in 0..255
          /\ (pixels = <<0, 64, 128, 192, 255>> => out = <<255, 191, 127, 63, 0>>)
    /\ ipc = "restored" => back = pixels

\* the demo's vector inverted twice
C13_Witness ==
    /\ ipc = "restored"
    /\ pixels = <<0, 64, 128, 192, 255>>
    /\ out = <<255, 191, 127, 63, 0>>
    /\ back = pixels

\* intersection / (area_a + area_b - intersection) > t, resp. = t, for valid
\* boxes with a positive union area
ClaimIouGreater(a, b, t) ==
    LET inter == InterArea(a, b)
        union == BoxArea(a) + BoxArea(b) - inter
    IN  union > 0 /\ inter * t[2] > t[1] * union

ClaimIouEqual(a, b, t) ==
    LET inter == InterArea(a, b)
        union == BoxArea(a) + BoxArea(b) - inter
    IN  union > 0 /\ inter * t[2] = t[1] * union

\* the box ranked at position k of the sorted order, positions from 1
Ranked(k) == bboxes[indices[k] + 1]

\* C14: an index is left out of the result only if an index ranked before it
\* that is itself in the result has IoU strictly greater than the threshold
\* with it; an IoU equal to the threshold suppresses nothing, and neither
\* does a box that is itself suppressed.
C14_LeftOutOnlyByKeptBox ==
    (Done /\ EqualLen) =>
        \A b \in 1..Len(indices) :
            indices[b] \notin KeepSet =>
                \E a \in 1..(b - 1) :
                    /\ indices[a] \in KeepSet
                    /\ ClaimIouGreater(Ranked(a), Ranked(b), threshold)

\* box b is suppressed and overlaps the later box c beyond the threshold, box
\* a is kept and overlaps c exactly at the threshold, and c is kept
C14_Witness ==
    /\ Done /\ EqualLen
    /\ \E a, b, c \in 1..Len(indices) :
          /\ a < c /\ b < c
          /\ indices[a] \in KeepSet
          /\ indices[b] \notin KeepSet
          /\ indices[c] \in KeepSet
          /\ ClaimIouGreater(Ranked(b), Ranked(c), threshold)
          /\ ClaimIouEqual(Ranked(a), Ranked(c), threshold)

====
